---------------------------- MODULE Spec2Model ----------------------------
(***************************************************************************)
(* A model of the two natural-language search relays of maidisco:          *)
(*   primo_ai_frontend_flask.py   (variant "primo")                        *)
(*   vufind_ai_frontend_flask.py  (variant "vufind")                       *)
(* Each request runs  translate -> catalog GET -> normalize -> summarize.  *)
(*                                                                         *)
(* JSON values are tagged records of one shape, [k, s, l]: k is the kind   *)
(* ("absent" for a key that is not in its dict, "null", "str", "list"),    *)
(* s the text of a string and l the elements of a list of strings.         *)
(* A Python call either returns or raises: [exc, val], exc = "none" when   *)
(* it returned val.                                                        *)
(***************************************************************************)
EXTENDS Integers, Sequences, FiniteSets, TLC

VARIABLES
    variant,      \* which of the two programs serves the request
    pc,           \* position of the request in search()
    form,         \* request.form: the raw fields of the POST
    nl,           \* search(): nl, the stripped query
    filters,      \* search() of vufind: the user-selected facets
    llmText,      \* message.content of the translation completion
    translated,   \* search(): translated, what translate_nl_to_* returned
    request,      \* the query string of the catalog GET
    reply,        \* how the catalog GET ended: [k, msg]
    raw,          \* search(): raw, what the catalog client returned
    max_items,    \* the cap normalize_*_json runs with
    items,        \* [exc, val]: what normalize_*_json returned or raised
    summary,      \* search(): summary / summary_html before rendering
    callLog,      \* the outbound calls begun so far, in order
    completed,    \* how many of them have returned or raised
    outcome       \* how the request ended

vars == <<variant, pc, form, nl, filters, llmText, translated, request, reply, raw,
          max_items, items, summary, callLog, completed, outcome>>

(***************************************************************************)
(* Bounds of the model.                                                    *)
(***************************************************************************)
MaxDocs == 3      \* longest document list of a catalog payload
MaxCap == 3       \* largest max_items the normalizers are applied with
MaxWs == 1        \* longest run of whitespace inside a completion

(***************************************************************************)
(* JSON values and the Python idioms the code applies to them.             *)
(***************************************************************************)
Absent == [k |-> "absent", s |-> "", l |-> <<>>]
Null == [k |-> "null", s |-> "", l |-> <<>>]
Str(x) == [k |-> "str", s |-> x, l |-> <<>>]
List(q) == [k |-> "list", s |-> "", l |-> q]

Ok(v) == [exc |-> "none", val |-> v]
Raise(e) == [exc |-> e, val |-> <<>>]

Min(a, b) == IF a < b THEN a ELSE b

\* bool(v): None, "" and [] are falsy
Truthy(v) == (v.k = "str" /\ v.s # "") \/ (v.k = "list" /\ v.l # <<>>)

\* d.get(key, default), v being the slot of key in d
Get(v, default) == IF v.k = "absent" THEN default ELSE v

\* key in d
Has(v) == v.k # "absent"

\* sep.join(q)
RECURSIVE Join(_, _)
Join(sep, q) ==
    IF q = <<>> THEN ""
    ELSE IF Len(q) = 1 THEN q[1]
    ELSE q[1] \o sep \o Join(sep, Tail(q))

\* q[:n] for n >= 0
Slice(q, n) == SubSeq(q, 1, Min(Len(q), n))

(***************************************************************************)
(* Catalog documents.  A document is a dict; its flat keys are the VuFind  *)
(* schema, its 'pnx' key holds the Primo schema (display/addata/links).    *)
(***************************************************************************)
NoGroup == [k |-> "absent", title |-> Absent, contributor |-> Absent,
            creationdate |-> Absent, format |-> Absent, description |-> Absent,
            date |-> Absent, abstract |-> Absent, openurl |-> Absent]
NullGroup == [NoGroup EXCEPT !.k = "null"]
Group == [NoGroup EXCEPT !.k = "dict"]

NoPnx == [k |-> "absent", display |-> NoGroup, addata |-> NoGroup, links |-> NoGroup]
Pnx(d, a, ln) == [k |-> "dict", display |-> d, addata |-> a, links |-> ln]

EmptyDoc == [title |-> Absent, author |-> Absent, date |-> Absent, format |-> Absent,
             description |-> Absent, url |-> Absent, pnx |-> NoPnx]

\* {"title":"A","author":["X","Y"],"date":"2020"}
VDocA == [EmptyDoc EXCEPT !.title = Str("A"), !.author = List(<<"X", "Y">>),
                          !.date = Str("2020")]
\* every flat field supplied, a scalar author
VDocB == [EmptyDoc EXCEPT !.title = Str("B"), !.author = Str("Z"), !.date = Str("2021"),
                          !.format = Str("Book"), !.description = Str("about B"),
                          !.url = Str("http://b")]
\* every flat field present and null
VDocNull == [EmptyDoc EXCEPT !.title = Null, !.author = Null, !.date = Null,
                             !.format = Null, !.description = Null, !.url = Null]
\* a full PNX record
PDocA == [EmptyDoc EXCEPT !.pnx = Pnx(
            [Group EXCEPT !.title = List(<<"P">>), !.contributor = List(<<"X", "Y">>),
                          !.creationdate = List(<<"2019">>), !.format = List(<<"Article">>),
                          !.description = List(<<"about", "P">>)],
            [Group EXCEPT !.date = List(<<"2018">>), !.abstract = List(<<"abs">>)],
            [Group EXCEPT !.openurl = List(<<"http://p">>)])]
\* a PNX record without display: year and snippet come from addata
PDocSparse == [EmptyDoc EXCEPT !.pnx = Pnx(
            NoGroup,
            [Group EXCEPT !.date = List(<<"2018">>), !.abstract = List(<<"abs">>)],
            NoGroup)]
\* a PNX record whose fields are present and empty or null
PDocHollow == [EmptyDoc EXCEPT !.pnx = Pnx(
            [Group EXCEPT !.title = List(<<>>), !.contributor = Null,
                          !.creationdate = List(<<>>), !.format = Null,
                          !.description = List(<<>>)],
            [Group EXCEPT !.date = List(<<"2018">>), !.abstract = List(<<"abs">>)],
            [Group EXCEPT !.openurl = List(<<>>)])]
\* {"pnx": {"display": null}}
PDocNullDisplay == [EmptyDoc EXCEPT !.pnx = Pnx(NullGroup, NoGroup, NoGroup)]

Docs == {EmptyDoc, VDocA, VDocB, VDocNull, PDocA, PDocSparse, PDocHollow, PDocNullDisplay}

RECURSIVE SeqsUpTo(_, _)
SeqsUpTo(S, n) ==
    IF n = 0 THEN {<<>>}
    ELSE LET shorter == SeqsUpTo(S, n - 1)
         IN  shorter \cup {Append(q, x) : q \in shorter, x \in S}

DocLists == SeqsUpTo(Docs, MaxDocs)

(***************************************************************************)
(* What the catalog client hands to search(): a JSON document (a dict with *)
(* some of the keys docs/records/pnx/items, or a top-level list) or the    *)
(* error descriptor {"error": msg, "status_code": ...} of the Primo        *)
(* client.  A slot is [k, l]: absent, null, or a list of documents.        *)
(***************************************************************************)
NoSlot == [k |-> "absent", l |-> <<>>]
NullSlot == [k |-> "null", l |-> <<>>]
ListSlot(q) == [k |-> "list", l |-> q]

EmptyDict == [k |-> "dict", error |-> "", docs |-> NoSlot, records |-> NoSlot,
              pnx |-> NoSlot, items |-> NoSlot, top |-> <<>>]
TopList(q) == [EmptyDict EXCEPT !.k = "list", !.top = q]
ErrorDict(msg) == [EmptyDict EXCEPT !.error = msg]
NoRaw == [EmptyDict EXCEPT !.k = "none"]

SlotTruthy(v) == v.k = "list" /\ v.l # <<>>

ListKeys == {"docs", "records", "pnx", "items"}

RawPayloads ==
    {[EmptyDict EXCEPT ![key] = ListSlot(q)] : key \in ListKeys, q \in DocLists}
    \cup {[EmptyDict EXCEPT ![key] = NullSlot] : key \in ListKeys}
    \cup {[EmptyDict EXCEPT !.docs = s, !.records = ListSlot(q)] :
              s \in {NullSlot, ListSlot(<<>>)}, q \in DocLists}
    \cup {TopList(q) : q \in DocLists}
    \cup {EmptyDict}

(***************************************************************************)
(* normalize_vufind_json                                                   *)
(***************************************************************************)
\* the dict appended for one rec
normalize_vufind_record(rec) ==
    [title   |-> Get(rec.title, Str("No title")),
     authors |-> IF rec.author.k = "list"
                 THEN Str(Join(", ", Get(rec.author, List(<<>>)).l))
                 ELSE Get(rec.author, Str("")),
     year    |-> Get(rec.date, Str("")),
     format  |-> Get(rec.format, Str("")),
     snippet |-> Get(rec.description, Str("")),
     link    |-> Get(rec.url, Str("#"))]

normalize_vufind_json(raw_json, cap) ==
    IF raw_json.k # "dict"
    THEN Raise("AttributeError")        \* a list has no .get
    ELSE LET records == IF raw_json.records.k = "absent" THEN ListSlot(<<>>)
                        ELSE raw_json.records
         IN  IF records.k # "list"
             THEN Raise("TypeError")    \* None[:max_items]
             ELSE LET part == Slice(records.l, cap)
                  IN  Ok([i \in 1..Len(part) |-> normalize_vufind_record(part[i])])

(***************************************************************************)
(* normalize_primo_json                                                    *)
(***************************************************************************)
\* x[0] if x else ''
FirstOrEmpty(v) == IF Truthy(v) THEN v.l[1] ELSE ""

\* sep.join(x) if x else ''
JoinOrEmpty(sep, v) == IF Truthy(v) THEN Join(sep, v.l) ELSE ""

\* a or b
OrElse(a, b) == IF a # "" THEN a ELSE b

\* 'g' in pnx and 'f' in pnx['g'], g and f being the group and the field's slot;
\* raises TypeError when pnx['g'] is null
InGroup(g, f) == g.k # "absent" /\ Has(f)

\* the exception one pass of the loop body raises, "none" when it runs through
primo_doc_exc(doc) ==
    LET pnx == doc.pnx
        d == pnx.display
        a == pnx.addata
    IN  IF pnx.k = "absent" THEN "KeyError"                     \* doc['pnx']
        ELSE IF d.k = "null" THEN "TypeError"                   \* 'title' in None
        ELSE IF ~InGroup(d, d.creationdate) /\ a.k = "null" THEN "TypeError"
        ELSE IF ~InGroup(d, d.description) /\ a.k = "null" THEN "TypeError"
        ELSE IF pnx.links.k = "null" THEN "TypeError"
        ELSE "none"

\* the dict appended for one doc whose pass runs through
normalize_primo_record(doc) ==
    LET pnx == doc.pnx
        d == pnx.display
        a == pnx.addata
        ln == pnx.links
        title == IF InGroup(d, d.title) THEN FirstOrEmpty(d.title) ELSE ""
        authors == IF InGroup(d, d.contributor) THEN JoinOrEmpty(", ", d.contributor) ELSE ""
        year == IF InGroup(d, d.creationdate) THEN FirstOrEmpty(d.creationdate)
                ELSE IF InGroup(a, a.date) THEN FirstOrEmpty(a.date)
                ELSE ""
        fmt == IF InGroup(d, d.format) THEN FirstOrEmpty(d.format) ELSE ""
        snippet == IF InGroup(d, d.description) THEN JoinOrEmpty(" ", d.description)
                   ELSE IF InGroup(a, a.abstract) THEN JoinOrEmpty(" ", a.abstract)
                   ELSE ""
        link == IF InGroup(ln, ln.openurl)
                THEN (IF Truthy(ln.openurl) THEN ln.openurl.l[1] ELSE "#")
                ELSE "#"
    IN  [title   |-> Str(OrElse(title, "No title")),
         authors |-> Str(OrElse(authors, "")),
         year    |-> Str(OrElse(year, "")),
         format  |-> Str(OrElse(fmt, "")),
         snippet |-> Str(OrElse(snippet, "")),
         link    |-> Str(OrElse(link, "#"))]

\* docs after the two lookups that precede the loop
primo_docs(raw_json) ==
    LET found == IF raw_json.k # "dict" THEN NullSlot
                 ELSE IF raw_json.docs.k # "absent" THEN raw_json.docs
                 ELSE IF raw_json.records.k # "absent" THEN raw_json.records
                 ELSE IF raw_json.pnx.k = "list" THEN raw_json.pnx
                 ELSE IF raw_json.items.k # "absent" THEN raw_json.items
                 ELSE NullSlot
    IN  IF ~SlotTruthy(found) /\ raw_json.k = "list" THEN ListSlot(raw_json.top)
        ELSE found

normalize_primo_json(raw_json, cap) ==
    LET docs == primo_docs(raw_json)
    IN  IF ~SlotTruthy(docs) THEN Ok(<<>>)
        ELSE LET part == Slice(docs.l, cap)
                 bad == {i \in 1..Len(part) : primo_doc_exc(part[i]) # "none"}
             IN  IF bad # {}
                 THEN Raise(primo_doc_exc(part[CHOOSE i \in bad : \A j \in bad : i <= j]))
                 ELSE Ok([i \in 1..Len(part) |-> normalize_primo_record(part[i])])

Variants == {"primo", "vufind"}

normalize(v, raw_json, cap) ==
    IF v = "primo" THEN normalize_primo_json(raw_json, cap)
    ELSE normalize_vufind_json(raw_json, cap)

(***************************************************************************)
(* Text.  A text is a sequence of tokens: " " is one whitespace character, *)
(* FENCE the three backticks, JSONWORD the letters json, JUNK any other    *)
(* run of characters that is no JSON, and a member of JsonTokens is the    *)
(* text of one JSON value.                                                 *)
(***************************************************************************)
WS == " "
FENCE == "[fence]"
JSONWORD == "json"
JUNK == "Sure, here it is"

\* str.strip(): leading and trailing whitespace removed
RECURSIVE lstrip(_)
lstrip(t) == IF t # <<>> /\ Head(t) = WS THEN lstrip(Tail(t)) ELSE t

RECURSIVE rstrip(_)
rstrip(t) == IF t # <<>> /\ t[Len(t)] = WS THEN rstrip(SubSeq(t, 1, Len(t) - 1)) ELSE t

strip(t) == rstrip(lstrip(t))

\* the text of a token sequence
Text(t) == Join("", t)

(***************************************************************************)
(* The translated query: the JSON value json.loads returns.  A dict keeps  *)
(* the slots of the keys the programs read: q, lookfor and filters, and    *)
(* filters the slots of language, material_type, year_from, year_to.       *)
(***************************************************************************)
NoFilters == [k |-> "absent", language |-> Absent, material_type |-> Absent,
              year_from |-> Absent, year_to |-> Absent]
NullFilters == [NoFilters EXCEPT !.k = "null"]
EmptyFilters == [NoFilters EXCEPT !.k = "dict"]

FilterKeys == {"language", "material_type", "year_from", "year_to"}

TDict(q, lookfor, f) == [k |-> "dict", q |-> q, lookfor |-> lookfor, filters |-> f]
TOther(kind) == [k |-> kind, q |-> Absent, lookfor |-> Absent, filters |-> NoFilters]
NoTranslated == TOther("none")

AiFilters == [EmptyFilters EXCEPT !.language = Str("German"), !.year_from = Str("2019"),
                                  !.year_to = Null]

JsonTokens == {"OBJ_Q", "OBJ_LOOKFOR", "OBJ_Q_ONLY", "OBJ_LOOKFOR_ONLY", "OBJ_BOTH",
               "OBJ_FILTERS_ONLY", "OBJ_NULL_CORE", "OBJ_NULL_FILTERS",
               "ARRAY", "STRING", "NUMBER", "NULL"}

\* the value each JSON text denotes
JsonValue(tok) ==
    CASE tok = "OBJ_Q" -> TDict(Str("urban climate"), Absent, AiFilters)
      [] tok = "OBJ_LOOKFOR" -> TDict(Absent, Str("urban climate"), AiFilters)
      [] tok = "OBJ_Q_ONLY" -> TDict(Str("urban climate"), Absent, NoFilters)
      [] tok = "OBJ_LOOKFOR_ONLY" -> TDict(Absent, Str("urban climate"), NoFilters)
      [] tok = "OBJ_BOTH" -> TDict(Str("urban climate"), Str("urban climate"), EmptyFilters)
      [] tok = "OBJ_FILTERS_ONLY" -> TDict(Absent, Absent, AiFilters)
      [] tok = "OBJ_NULL_CORE" -> TDict(Null, Null, AiFilters)
      [] tok = "OBJ_NULL_FILTERS" -> TDict(Str("urban climate"), Str("urban climate"), NullFilters)
      [] tok = "ARRAY" -> TOther("list")
      [] tok = "STRING" -> TOther("str")
      [] tok = "NUMBER" -> TOther("num")
      [] tok = "NULL" -> TOther("null")

\* json.loads(text): whitespace around exactly one JSON value, else it raises
json_loads(t) ==
    LET body == strip(t)
    IN  IF Len(body) = 1 /\ body[1] \in JsonTokens THEN Ok(JsonValue(body[1]))
        ELSE [exc |-> "JSONDecodeError", val |-> NoTranslated]

\* re.sub(r'^[fence](?:json)?\s*', '', text), [fence] being the three backticks
sub_open_fence(t) ==
    IF t # <<>> /\ Head(t) = FENCE
    THEN LET rest == Tail(t)
         IN  IF rest # <<>> /\ Head(rest) = JSONWORD THEN lstrip(Tail(rest))
             ELSE lstrip(rest)
    ELSE t

\* re.sub(r'\s*[fence]$', '', text)
sub_close_fence(t) ==
    IF t # <<>> /\ t[Len(t)] = FENCE THEN rstrip(SubSeq(t, 1, Len(t) - 1))
    ELSE t

\* the text handed to json.loads
fence_stripped(content) == sub_close_fence(sub_open_fence(strip(content)))

\* {"q": nl_query}
primo_fallback(nl_query) == TDict(Str(nl_query), Absent, NoFilters)

\* a slip: the fallback of the primo file, {"q": nl_query}, in the vufind file
vufind_fallback_q(nl_query) == TDict(Str(nl_query), Absent, NoFilters)

\* {"lookfor": nl_query}
vufind_fallback(nl_query) == TDict(Absent, Str(nl_query), NoFilters)

\* translate_nl_to_primo from the completion's content on: [exc, val]
translate_nl_to_primo(nl_query, content) ==
    LET parsed == json_loads(fence_stripped(content))
    IN  IF parsed.exc # "none" THEN Ok(primo_fallback(nl_query)) ELSE Ok(parsed.val)

\* translate_nl_to_vufind from the completion's content on: [exc, val]
translate_nl_to_vufind(nl_query, content) ==
    LET parsed == json_loads(fence_stripped(content))
    IN  IF parsed.exc # "none" THEN Ok(vufind_fallback(nl_query)) ELSE Ok(parsed.val)

translate(v, nl_query, content) ==
    IF v = "primo" THEN translate_nl_to_primo(nl_query, content)
    ELSE translate_nl_to_vufind(nl_query, content)

(***************************************************************************)
(* The completions the LLM may send for a translation.                     *)
(***************************************************************************)
RECURSIVE Spaces(_)
Spaces(n) == IF n = 0 THEN <<>> ELSE <<WS>> \o Spaces(n - 1)

Openings == {<<>>, <<FENCE>>, <<FENCE, JSONWORD>>, <<FENCE, WS, JSONWORD>>,
             <<FENCE, JUNK>>, <<JSONWORD>>, <<JUNK>>}
Bodies == {<<>>, <<JUNK>>} \cup {<<tok>> : tok \in JsonTokens}
Closings == {<<>>, <<FENCE>>}

Completions ==
    {Spaces(pad) \o open \o Spaces(w) \o body \o Spaces(w) \o close \o Spaces(pad) :
         pad \in {0, 1}, w \in 0..MaxWs,
         open \in Openings, body \in Bodies, close \in Closings}

(***************************************************************************)
(* search(): the form, the user-selected facets and the merge.             *)
(***************************************************************************)
\* request.form.get(name, "").strip()
field(f, name) == Text(strip(f[name]))

EmptyForm == [nl |-> <<>>, language |-> <<>>, material_type |-> <<>>,
              year_from |-> <<>>, year_to |-> <<>>]

NlInputs == {<<>>, <<WS>>, <<WS, "climate", WS>>, <<"climate", WS, "resilience">>}

\* the primo form has the one field nl
PrimoForms == {[EmptyForm EXCEPT !.nl = q] : q \in NlInputs}

VufindForms ==
    [nl : NlInputs,
     language : {<<>>, <<WS>>, <<"English">>},
     material_type : {<<>>, <<"Books">>},
     year_from : {<<>>, <<"2019", WS>>},
     year_to : {<<>>, <<"2024">>}]

Forms(v) == IF v = "primo" THEN PrimoForms ELSE VufindForms

\* if language: filters["language"] = language, and so on
facet(f, name) == IF field(f, name) # "" THEN Str(field(f, name)) ELSE Absent

\* filters, the user-selected facets of the vufind form
user_facets(f) ==
    [k |-> "dict", language |-> facet(f, "language"),
     material_type |-> facet(f, "material_type"),
     year_from |-> facet(f, "year_from"), year_to |-> facet(f, "year_to")]

\* a.update(b) for two dicts
dict_update(a, b) ==
    [key \in DOMAIN a |->
        IF key = "k" THEN a.k ELSE IF Has(b[key]) THEN b[key] ELSE a[key]]

\* translated_filters = translated.get("filters", {});
\* translated_filters.update(filters); translated["filters"] = translated_filters
merge_facets(tr, user) ==
    IF tr.k # "dict"
    THEN [exc |-> "AttributeError", val |-> NoTranslated]    \* no .get on a non-dict
    ELSE LET translated_filters == IF tr.filters.k = "absent" THEN EmptyFilters
                                   ELSE tr.filters
         IN  IF translated_filters.k # "dict"
             THEN [exc |-> "AttributeError", val |-> NoTranslated]  \* None.update
             ELSE Ok([tr EXCEPT !.filters = dict_update(translated_filters, user)])

(***************************************************************************)
(* The catalog GET: its query string and what the client makes of the      *)
(* reply.                                                                  *)
(***************************************************************************)
Limit == 10

NoRequest == [k |-> "none", q |-> Absent, lookfor |-> Absent, limit |-> 0, filter |-> <<>>]

\* f"{v}" of a filter value
Fmt(v) == IF v.k = "str" THEN v.s ELSE IF v.k = "null" THEN "None" ELSE ""

\* search() of primo: params; the parameters taken from the environment
\* (apikey, scope, tab, vid) are fixed per process and left out
primo_params(tr) ==
    LET q == IF tr.k = "dict" THEN Get(tr.q, Null) ELSE Null
    IN  [NoRequest EXCEPT !.k = "primo",
                          !.q = IF Truthy(q) THEN Str("any,contains," \o Fmt(q)) ELSE Absent]

\* call_vufind_search: query_params
vufind_query_params(params) ==
    LET f == IF params.filters.k = "absent" THEN EmptyFilters ELSE params.filters
        lang == IF Has(f.language) /\ Truthy(f.language)
                THEN <<"language::" \o Fmt(f.language)>> ELSE <<>>
        type == IF Has(f.material_type) /\ Truthy(f.material_type)
                THEN <<"type::" \o Fmt(f.material_type)>> ELSE <<>>
        year == IF (Has(f.year_from) /\ Truthy(f.year_from))
                   \/ (Has(f.year_to) /\ Truthy(f.year_to))
                THEN <<"year::" \o Fmt(Get(f.year_from, Str(""))) \o "-"
                                \o Fmt(Get(f.year_to, Str("")))>>
                ELSE <<>>
    IN  [NoRequest EXCEPT !.k = "vufind", !.lookfor = Get(params.lookfor, Str("")),
                          !.limit = Limit, !.filter = lang \o type \o year]

NoReply == [k |-> "none", msg |-> ""]

\* what requests.get, raise_for_status and r.json() can do
Failures ==
    {[k |-> "network", exc |-> "ConnectionError", msg |-> "Connection refused", body |-> NoRaw],
     [k |-> "status", exc |-> "HTTPError", msg |-> "503 Server Error", body |-> NoRaw],
     [k |-> "body", exc |-> "RequestsJSONDecodeError", msg |-> "Expecting value", body |-> NoRaw]}

ServedPayloads ==
    {p \in RawPayloads : \A key \in ListKeys : Len(p[key].l) <= 1 /\ Len(p.top) <= 1}

Replies == Failures \cup {[k |-> "ok", exc |-> "none", msg |-> "", body |-> p] : p \in ServedPayloads}

\* call_primo_search: try ... except Exception as e: return {"error": str(e), ...}
call_primo_search(r) ==
    IF r.k = "ok" THEN [exc |-> "none", val |-> r.body]
    ELSE [exc |-> "none", val |-> ErrorDict(r.msg)]

\* call_vufind_search: r.raise_for_status(); return r.json(), nothing caught
call_vufind_search(r) ==
    IF r.k = "ok" THEN [exc |-> "none", val |-> r.body]
    ELSE [exc |-> r.exc, val |-> NoRaw]

call_catalog(v, r) ==
    IF v = "primo" THEN call_primo_search(r) ELSE call_vufind_search(r)

\* search() of primo: isinstance(raw, dict) and raw.get('error')
is_error(raw_json) == raw_json.k = "dict" /\ raw_json.error # ""

(***************************************************************************)
(* summarize_results and the rendering of the page.                        *)
(***************************************************************************)
DefaultMaxItems == 10

NoResults == "No results to summarize."

\* a slip: the guard left out, the LLM is asked whatever the results
summarize_always(results) == FALSE

\* if not items: return "No results to summarize."
summarize_short_circuit(results) == results = <<>>

\* markdown.markdown(text): a paragraph around non-empty text
Markdown(text) == IF text = "" THEN "" ELSE "<p>" \o text \o "</p>"

\* what summarize_results returns for the completion's content
summarize_returns(v, content) ==
    IF v = "primo" THEN Text(strip(content)) ELSE Markdown(Text(strip(content)))

\* summary_html as the template gets it
summary_html(v, text) == IF v = "primo" THEN Markdown(text) ELSE text

SummaryCompletions == {<<>>, <<"Two", WS, "themes">>, <<WS, "Two", WS, "themes", WS>>}

NoItems == [exc |-> "unset", val |-> <<>>]
NoOutcome == [k |-> "none", exc |-> "", summary_html |-> "", results |-> <<>>]
Index(v) == [NoOutcome EXCEPT !.k = IF v = "primo" THEN "redirect" ELSE "index"]
Page(v, text, results) ==
    [NoOutcome EXCEPT !.k = "page", !.summary_html = summary_html(v, text),
                      !.results = results]
Failed(e) == [NoOutcome EXCEPT !.k = "exception", !.exc = e]

(***************************************************************************)
(* The request: search() as a sequence of steps, one outbound call at a    *)
(* time.  pc: "idle" (no request yet), "translate" (before the first LLM   *)
(* call), "translating" (the call is out), "translated", "searching" (the  *)
(* GET is out), "summary" (before the second LLM call), "summarizing",     *)
(* "done".                                                                 *)
(***************************************************************************)
\* a slip: the call is issued again, a retry
begin_call_retry(log, name) == Append(Append(log, name), name)

\* one outbound call is issued: client.chat.completions.create or requests.get
begin_call(log, name) == Append(log, name)

LlmReplies(contents) ==
    {[k |-> "raise", content |-> <<>>]} \cup {[k |-> "content", content |-> c] : c \in contents}

Idle ==
    /\ pc = "idle"
    /\ form = EmptyForm /\ nl = "" /\ filters = NoFilters /\ llmText = <<>>
    /\ translated = NoTranslated /\ request = NoRequest /\ reply = NoReply
    /\ raw = NoRaw
    /\ max_items = DefaultMaxItems /\ items = NoItems /\ summary = ""
    /\ callLog = <<>> /\ completed = 0 /\ outcome = NoOutcome

Init == variant \in Variants /\ Idle

\* POST /search arrives: nl and the facets are read from the form
Receive ==
    /\ pc = "idle"
    /\ \E f \in Forms(variant) :
          /\ form' = f
          /\ nl' = field(f, "nl")
          /\ IF field(f, "nl") = ""
             THEN /\ pc' = "done"
                  /\ outcome' = Index(variant)
                  /\ filters' = filters
             ELSE /\ pc' = "translate"
                  /\ outcome' = outcome
                  /\ filters' = IF variant = "vufind" THEN user_facets(f) ELSE filters
    /\ UNCHANGED <<variant, llmText, translated, request, reply, raw, max_items, items,
                   summary, callLog, completed>>

\* translate_nl_to_*: the completion is requested
BeginTranslate ==
    /\ pc = "translate"
    /\ callLog' = begin_call(callLog, "llm_translate")
    /\ pc' = "translating"
    /\ UNCHANGED <<variant, form, nl, filters, llmText, translated, request, reply, raw,
                   max_items, items, summary, completed, outcome>>

\* translate_nl_to_*: the completion arrives (or the call raises) and is parsed
EndTranslate ==
    /\ pc = "translating"
    /\ completed' = completed + 1
    /\ \E answer \in LlmReplies(Completions) :
          IF answer.k = "raise"
          THEN /\ pc' = "done"
               /\ outcome' = Failed("APIError")
               /\ UNCHANGED <<llmText, translated>>
          ELSE LET got == translate(variant, nl, answer.content)
               IN  /\ llmText' = answer.content
                   /\ translated' = got.val
                   /\ pc' = IF got.exc = "none" THEN "translated" ELSE "done"
                   /\ outcome' = IF got.exc = "none" THEN outcome ELSE Failed(got.exc)
    /\ UNCHANGED <<variant, form, nl, filters, request, reply, raw, max_items, items,
                   summary, callLog>>

\* search() from the return of translate to the GET: the facets are merged
\* (vufind), the query string is built and the GET is sent
BeginCatalog ==
    /\ pc = "translated"
    /\ LET merged == IF variant = "vufind" THEN merge_facets(translated, filters)
                     ELSE Ok(translated)
       IN  IF merged.exc # "none"
           THEN /\ pc' = "done"
                /\ outcome' = Failed(merged.exc)
                /\ UNCHANGED <<llmText, translated, request, callLog>>
           ELSE /\ pc' = "searching"
                /\ llmText' = <<>>      \* the completion's text is not kept
                /\ translated' = merged.val
                /\ request' = IF variant = "vufind" THEN vufind_query_params(merged.val)
                              ELSE primo_params(merged.val)
                /\ callLog' = begin_call(callLog, "catalog_get")
                /\ outcome' = outcome
    /\ UNCHANGED <<variant, form, nl, filters, reply, raw, max_items, items,
                   summary, completed>>

\* search() from the reply of the GET to the second LLM call or to the page
EndCatalog ==
    /\ pc = "searching"
    /\ completed' = completed + 1
    /\ \E r \in Replies :
          LET got == call_catalog(variant, r)
              normalized == normalize(variant, got.val, max_items)
          IN  /\ reply' = [k |-> r.k, msg |-> r.msg]
              /\ IF got.exc # "none"
                 THEN /\ pc' = "done"
                      /\ outcome' = Failed(got.exc)
                      /\ UNCHANGED <<raw, items, summary>>
                 ELSE IF variant = "primo" /\ is_error(got.val)
                 THEN /\ pc' = "done"
                      /\ raw' = got.val
                      /\ items' = Ok(<<>>)
                      /\ summary' = "Error calling Primo: " \o got.val.error
                      /\ outcome' = Page(variant, summary', <<>>)
                 ELSE IF normalized.exc # "none"
                 THEN /\ pc' = "done"
                      /\ raw' = got.val
                      /\ items' = normalized
                      /\ summary' = summary
                      /\ outcome' = Failed(normalized.exc)
                 ELSE IF summarize_short_circuit(normalized.val)
                 THEN /\ pc' = "done"
                      /\ raw' = got.val
                      /\ items' = normalized
                      /\ summary' = NoResults
                      /\ outcome' = Page(variant, NoResults, normalized.val)
                 ELSE /\ pc' = "summary"
                      /\ raw' = got.val
                      /\ items' = normalized
                      /\ summary' = summary
                      /\ outcome' = outcome
    /\ UNCHANGED <<variant, form, nl, filters, llmText, translated, request, max_items,
                   callLog>>

\* summarize_results: the completion is requested (the prompt, the numbered
\* lines of the first records, is sent and not kept)
BeginSummary ==
    /\ pc = "summary"
    /\ callLog' = begin_call(callLog, "llm_summary")
    /\ pc' = "summarizing"
    /\ UNCHANGED <<variant, form, nl, filters, llmText, translated, request, reply, raw,
                   max_items, items, summary, completed, outcome>>

\* summarize_results returns (or the call raises) and the page is rendered
EndSummary ==
    /\ pc = "summarizing"
    /\ completed' = completed + 1
    /\ pc' = "done"
    /\ \E answer \in LlmReplies(SummaryCompletions) :
          IF answer.k = "raise"
          THEN /\ outcome' = Failed("APIError")
               /\ summary' = summary
          ELSE /\ summary' = summarize_returns(variant, answer.content)
               /\ outcome' = Page(variant, summary', items.val)
    /\ UNCHANGED <<variant, form, nl, filters, llmText, translated, request, reply, raw,
                   max_items, items, callLog>>

Next ==
    \/ Receive
    \/ BeginTranslate
    \/ EndTranslate
    \/ BeginCatalog
    \/ EndCatalog
    \/ BeginSummary
    \/ EndSummary

Spec == Init /\ [][Next]_vars

(***************************************************************************)
(* normalize_*_json on its own: every payload of RawPayloads under every   *)
(* cap of 0..MaxCap.                                                       *)
(***************************************************************************)
InitNormalize ==
    /\ variant \in Variants
    /\ pc = "normalize"
    /\ raw \in RawPayloads
    /\ max_items \in 0..MaxCap
    /\ form = EmptyForm /\ nl = "" /\ filters = NoFilters /\ llmText = <<>>
    /\ translated = NoTranslated /\ request = NoRequest /\ reply = NoReply
    /\ items = NoItems /\ summary = ""
    /\ callLog = <<>> /\ completed = 0 /\ outcome = NoOutcome

Normalize ==
    /\ pc = "normalize"
    /\ items' = normalize(variant, raw, max_items)
    /\ pc' = "normalized"
    /\ UNCHANGED <<variant, form, nl, filters, llmText, translated, request, reply, raw,
                   max_items, summary, callLog, completed, outcome>>

NextNormalize == Normalize

SpecNormalize == InitNormalize /\ [][NextNormalize]_vars

(***************************************************************************)
(* Properties.                                                             *)
(***************************************************************************)
ThreeCalls == <<"llm_translate", "catalog_get", "llm_summary">>

InLog(name) == \E i \in 1..Len(callLog) : callLog[i] = name

\* the GET ended in a network failure or a non-2xx status
CatalogCallFailed == reply.k \in {"network", "status"}

\* html shows the failure message msg of the catalog call
ShowsFailure(html, msg) ==
    \E text \in {"Error calling Primo: " \o msg, "Error calling VuFind: " \o msg} :
        html \in {text, "<p>" \o text \o "</p>"}

\* C1: when the catalog call fails (network failure or non-2xx status), the
\* request ends with a page that shows the failure message in place of the
\* summary and an empty result list, and the summarizer made no LLM call.
C1_CatalogFailureShowsError ==
    (pc = "done" /\ CatalogCallFailed) =>
        /\ outcome.k = "page"
        /\ ShowsFailure(outcome.summary_html, reply.msg)
        /\ outcome.results = <<>>
        /\ ~InLog("llm_summary")

\* C2: the catalog client never propagates an exception: after a network
\* failure or an HTTP error status search() holds the tagged error value with
\* the failure message, and no normalization was attempted on it.
C2_CatalogClientReturnsTaggedError ==
    (pc = "done" /\ CatalogCallFailed) =>
        /\ outcome.exc \notin {"ConnectionError", "HTTPError"}
        /\ raw = [EmptyDict EXCEPT !.error = reply.msg]
        /\ items = [exc |-> "none", val |-> <<>>]

\* the core key of the variant's translated query
Core(v, tr) == IF v = "primo" THEN tr.q ELSE tr.lookfor

\* a completion that is no JSON: prose in it, or no JSON value at all (the
\* empty string and a bare fence among them)
NotJsonText(t) ==
    \/ \E i \in 1..Len(t) : t[i] = JUNK
    \/ \A i \in 1..Len(t) : t[i] \notin JsonTokens

\* the JSON texts of a query object as the prompt of variant v asks for it
QueryObjects(v) ==
    {tok \in JsonTokens : JsonValue(tok).k = "dict" /\ Core(v, JsonValue(tok)).k = "str"}

\* a query object wrapped in code fences, with or without the json tag
FencedQueryText(v, t) ==
    \E open, at, close \in 1..Len(t) :
        /\ open < at /\ at < close
        /\ t[open] = FENCE /\ t[at] \in QueryObjects(v) /\ t[close] = FENCE
        /\ \A j \in 1..Len(t) :
              \/ j \in {open, at, close}
              \/ t[j] = WS
              \/ (j = open + 1 /\ t[j] = JSONWORD)

\* the fallback object: the core key holding the raw query and nothing else
OnlyTheQuery(v, query) ==
    [k |-> "dict", q |-> IF v = "primo" THEN Str(query) ELSE Absent,
     lookfor |-> IF v = "vufind" THEN Str(query) ELSE Absent, filters |-> NoFilters]

C4_TranslatorReturnsQueryDict ==
    /\ pc = "translated" => (translated.k = "dict" /\ Core(variant, translated).k = "str")
    /\ (pc = "done" /\ callLog = <<"llm_translate">>) => outcome.exc # "AttributeError"

\* the one document list of a payload shaped {"records": [...]}, {"docs": [...]}
\* or [...]; ShapedPayload says that raw_json is one of the three
ShapedPayload(raw_json) ==
    \/ raw_json.k = "list"
    \/ /\ raw_json.k = "dict" /\ raw_json.error = ""
       /\ raw_json.pnx.k = "absent" /\ raw_json.items.k = "absent"
       /\ \/ (raw_json.records.k = "list" /\ raw_json.docs.k = "absent")
          \/ (raw_json.docs.k = "list" /\ raw_json.records.k = "absent")

Documents(raw_json) ==
    IF raw_json.k = "list" THEN raw_json.top
    ELSE IF raw_json.records.k = "list" THEN raw_json.records.l
    ELSE raw_json.docs.l

\* the record the variant's normalizer makes of one document
RecordOf(v, doc) ==
    IF v = "primo" THEN normalize_primo_record(doc) ELSE normalize_vufind_record(doc)

\* C5: for a payload {"records": [...]}, {"docs": [...]} or [...] and a cap
\* max_items >= 0, normalize returns the records of exactly the first
\* min(len(documents), max_items) documents, in source order.
C5_NormalizeKeepsFirstCapInOrder ==
    (pc = "normalized" /\ ShapedPayload(raw)) =>
        /\ items.exc = "none"
        /\ Len(items.val) = Min(Len(Documents(raw)), max_items)
        /\ \A i \in 1..Len(items.val) : items.val[i] = RecordOf(variant, Documents(raw)[i])

RecordKeys == {"title", "authors", "year", "format", "snippet", "link"}

\* the flat source field behind each key of a record, and the value the key
\* gets when that field is missing or null
FlatField(key) ==
    CASE key = "title" -> "title" [] key = "authors" -> "author" [] key = "year" -> "date"
      [] key = "format" -> "format" [] key = "snippet" -> "description" [] key = "link" -> "url"

Placeholder(key) ==
    CASE key = "title" -> "No title" [] key = "link" -> "#" [] OTHER -> ""

\* C6: normalize never raises on a document with missing fields, and every
\* record has all six keys with non-null values: a missing or null source
\* field gives "", except the title ("No title") and the link ("#").
C6_RecordsHaveSixNonNullFields ==
    (pc = "normalized" /\ raw.k = "dict" /\ raw.records.k = "list" /\ raw.docs.k = "absent") =>
        /\ items.exc = "none"
        /\ \A i \in 1..Len(items.val) : \A key \in RecordKeys :
              /\ items.val[i][key].k = "str"
              /\ (variant = "vufind" /\ raw.records.l[i][FlatField(key)].k \in {"absent", "null"})
                     => items.val[i][key].s = Placeholder(key)

\* a payload whose document list is empty or absent
NoDocuments(raw_json) ==
    \/ raw_json.k = "list" /\ raw_json.top = <<>>
    \/ /\ raw_json.k = "dict" /\ raw_json.error = ""
       /\ \A key \in ListKeys : raw_json[key].k \in {"absent", "null"} \/ raw_json[key].l = <<>>

\* C7: for a payload whose document list is empty or absent (no known key, a
\* known key holding [] or null, an empty top-level list) normalize returns
\* the empty sequence and does not raise.
C7_NoDocumentsNormalizeToEmpty ==
    (pc = "normalized" /\ NoDocuments(raw)) => items = [exc |-> "none", val |-> <<>>]

\* C8 as stated: every request with a non-empty query makes the three calls,
\* translation, GET, summary, in that order (read off the requests that are
\* answered with their page).
C8_EveryRequestMakesThreeCalls ==
    (pc = "done" /\ nl # "" /\ outcome.k = "page") =>
        (callLog = ThreeCalls /\ completed = 3)

IsPrefix(p, q) == Len(p) <= Len(q) /\ \A i \in 1..Len(p) : p[i] = q[i]

\* C8 as amended: the calls a request makes are, in this order and each at
\* most once, the translation LLM call, the catalog GET and the summary LLM
\* call; each has ended before the next begins; a request with an empty query
\* makes none; the sequence may stop early, and a request that renders a
\* non-empty result list has made all three.
C8_CallsInOrderEachAtMostOnce ==
    /\ IsPrefix(callLog, ThreeCalls)
    /\ Len(callLog) - completed \in {0, 1}
    /\ pc = "done" => completed = Len(callLog)
    /\ (pc # "idle" /\ nl = "") => callLog = <<>>
    /\ (pc = "done" /\ outcome.k = "page" /\ outcome.results # <<>>) => callLog = ThreeCalls

\* C8 witness: a page with results, after the three calls
C8_Witness ==
    /\ pc = "done" /\ outcome.k = "page" /\ Len(outcome.results) = 1
    /\ callLog = ThreeCalls /\ completed = 3

\* C9: summarize_results answers an empty sequence with the fixed message
\* "No results to summarize." and makes no LLM call; it calls the LLM only
\* when there is at least one record.
C9_NoSummaryCallWithoutRecords ==
    /\ InLog("llm_summary") => (items.exc = "none" /\ items.val # <<>>)
    /\ (pc = "done" /\ reply.k = "ok" /\ items = [exc |-> "none", val |-> <<>>]) =>
           /\ summary = "No results to summarize."
           /\ callLog = <<"llm_translate", "catalog_get">>

\* C9 witness: the catalog answered, nothing was found, the fixed message is shown
C9_Witness ==
    /\ pc = "done" /\ reply.k = "ok" /\ items.exc = "none" /\ items.val = <<>>
    /\ summary = "No results to summarize." /\ ~InLog("llm_summary")
    /\ outcome.k = "page"

\* the filters of a translated query, {} when it has none
FiltersOf(tr) == IF tr.filters.k = "dict" THEN tr.filters ELSE EmptyFilters

\* C10: in the vufind route the filters passed to the catalog client are the
\* AI-translated filters merged with the user-selected facets: a key the user
\* set has the user's value, every other key the AI's value; and the merge
\* succeeds for every translated query, one without 'filters' included.
C10_UserFacetsOverrideAiFilters ==
    [][(variant = "vufind" /\ pc = "translated") =>
          /\ pc' = "searching"
          /\ translated'.filters.k = "dict"
          /\ \A key \in FilterKeys :
                translated'.filters[key] =
                    IF filters[key].k # "absent" THEN filters[key]
                    ELSE FiltersOf(translated)[key]]_vars

\* a filter value that is non-empty: a string other than ""
NonEmpty(v) == v.k = "str" /\ v.s # ""

\* a bound of the year range as the claim renders it: its text, "" when missing
Bound(v) == IF NonEmpty(v) THEN v.s ELSE ""

\* the filter[] entries the claim gives for merged filters f, in the order
\* language, type, year
FilterEntries(f) ==
    (IF NonEmpty(f.language) THEN <<"language::" \o f.language.s>> ELSE <<>>)
    \o (IF NonEmpty(f.material_type) THEN <<"type::" \o f.material_type.s>> ELSE <<>>)
    \o (IF NonEmpty(f.year_from) \/ NonEmpty(f.year_to)
        THEN <<"year::" \o Bound(f.year_from) \o "-" \o Bound(f.year_to)>> ELSE <<>>)

\* C11: the query string call_vufind_search builds from the merged query has
\* lookfor = the core expression and limit = 10; filter[] holds language::<v>
\* iff filters.language is non-empty, type::<v> iff filters.material_type is
\* non-empty, and one year::<from>-<to> iff year_from or year_to is non-empty,
\* a missing bound rendered as the empty string; nothing else, in that order.
C11_QueryStringEncodesMergedFilters ==
    (variant = "vufind" /\ pc = "searching") =>
        /\ request.k = "vufind"
        /\ request.limit = 10
        /\ translated.lookfor.k = "str" => request.lookfor = translated.lookfor
        /\ request.filter = FilterEntries(translated.filters)

\* a flat source field that carries a value: a string, or for the author a
\* list of strings
Supplied(doc, key) ==
    doc[FlatField(key)].k = "str" \/ (key = "authors" /\ doc.author.k = "list")

\* the value the claim gives the key of the record of doc: the source value,
\* a multi-valued author joined with ", "
Carried(doc, key) ==
    IF doc[FlatField(key)].k = "list" THEN Str(Join(", ", doc[FlatField(key)].l))
    ELSE doc[FlatField(key)]

\* the PNX list behind each key of a record
PnxField(doc, key) ==
    CASE key = "title" -> doc.pnx.display.title
      [] key = "authors" -> doc.pnx.display.contributor
      [] key = "year" -> doc.pnx.display.creationdate
      [] key = "format" -> doc.pnx.display.format
      [] key = "snippet" -> doc.pnx.display.description
      [] key = "link" -> doc.pnx.links.openurl

\* the record of the example {"title":"A","author":["X","Y"],"date":"2020"}
ExampleRecord ==
    [title |-> Str("A"), authors |-> Str("X, Y"), year |-> Str("2020"),
     format |-> Str(""), snippet |-> Str(""), link |-> Str("#")]

\* C12: the record normalize makes of a source record that supplies all six
\* fields carries exactly the source's values, a multi-valued author or
\* contributor field joined with ", " and a scalar one used as it is; and
\* {"records":[{"title":"A","author":["X","Y"],"date":"2020"}]} normalizes to
\* one record with authors "X, Y", year "2020", format "", snippet "", link "#".
C12_NormalizeRoundTrip ==
    (pc = "normalized" /\ raw.k = "dict" /\ raw.records.k = "list" /\ raw.docs.k = "absent") =>
        /\ \A i \in 1..Min(Len(raw.records.l), max_items) :
              (\A key \in RecordKeys : Supplied(raw.records.l[i], key)) =>
                  /\ items.exc = "none"
                  /\ \A key \in RecordKeys :
                        items.val[i][key] = Carried(raw.records.l[i], key)
        /\ (raw.records.l = <<VDocA>> /\ max_items >= 1) =>
              items = [exc |-> "none", val |-> <<ExampleRecord>>]
        /\ (variant = "primo" /\ items.exc = "none") =>
              \A i \in 1..Len(items.val) : \A key \in RecordKeys :
                  LET v == PnxField(raw.records.l[i], key)
                  IN  /\ (v.k = "list" /\ Len(v.l) = 1) => items.val[i][key] = Str(v.l[1])
                      /\ (key = "authors" /\ v.k = "list" /\ v.l # <<>>) =>
                             items.val[i][key] = Str(Join(", ", v.l))
====
